---------------------------- MODULE Spec2Model ----------------------------
(***************************************************************************)
(* phab-http: a webhook relay from a Phabricator feed to a Matrix room.    *)
(* Model of src/src/phab-http.go: the start of the process (main and      *)
(* initLookups), the story router (postStory), the resolver and its cache  *)
(* (resolvePHIDs), the emitter (execute) and the logger (writeRawLog).     *)
(*                                                                         *)
(* Text is modelled as Go holds it: a string is its sequence of bytes, so  *)
(* prefixes, concatenation, escaping and sort order are computed, not      *)
(* assumed.  The text of each literal is given in the comment beside it.   *)
(***************************************************************************)
EXTENDS Naturals, Sequences, FiniteSets, Bags, TLC

VARIABLES
    cache,      \* conf.cache: identifier -> resolved fragments (sync.Map)
    lookups,    \* conf.lookups: display name -> alias (the alias table)
    feed,       \* the tracker's feed: the forms it sends, and how many
    main,       \* the goroutine running main(): where it is, and the
                \* responses its paste.search calls got
    logger,     \* conf.logger: TRUE while a writer holds the lock
    writers,    \* goroutines inside writeRawLog, spawned or called
    logfile,    \* lines appended to the log files so far
    hs,         \* one record per event handler (goroutine running postStory)
    events,     \* number of inbound events received so far
    sent,       \* history: identifier -> number of phid.query calls carrying it
    stores,     \* history: identifier -> number of cache.Store calls for it
    finished,   \* history: resolvePHIDs invocations that have returned
    unanswered, \* history: identifiers asked for that a response did not hold
    arg,        \* input of the pure function under check
    ret         \* its result

vars == <<cache, lookups, feed, main, logger, writers, logfile, hs, events,
          sent, stores, finished, unanswered, arg, ret>>

----------------------------------------------------------------------------
(* Bounds of the model *)

NumHandlers == 2    \* event handlers that may run concurrently
MaxEvents == 2      \* inbound events received in one behaviour
MaxTypes == 2       \* length of the allow-list given to isPHID

----------------------------------------------------------------------------
(* Literals of the program (src/src/phab-http.go:27-55) and of the inputs *)

IsPHIDType == <<80,72,73,68,45>>                    \* "PHID-"
IsTag == <<116,97,103>>                             \* "tag"
IsTitle == <<116,105,116,108,101>>                  \* "title"
BodyStart == <<60,98,111,100,121,62>>               \* "<body>"
BodyEnd == <<60,47,98,111,100,121,62>>              \* "</body>"
TaggedStoryType == <<80,104,97,98,114,105,99,97,116,111,114,70,101,101,100,
                     84,97,103,103,101,100,83,116,111,114,121>>
                                                    \* "PhabricatorFeedTaggedStory"
Dash == <<45>>                                      \* "-"
Empty == << >>                                      \* ""

----------------------------------------------------------------------------
(* Go's string functions, on byte sequences *)

\* strings.HasPrefix(s, prefix)
HasPrefix(s, prefix) ==
    /\ Len(s) >= Len(prefix)
    /\ SubSeq(s, 1, Len(prefix)) = prefix

\* a < b in Go's string order: byte-wise lexicographic
StringLess(a, b) ==
    \E i \in 1..(Len(b)) :
        /\ \A j \in 1..(i-1) : j <= Len(a) /\ a[j] = b[j]
        /\ \/ i = Len(a) + 1
           \/ i <= Len(a) /\ a[i] < b[i]

RECURSIVE Insert(_, _)
Insert(s, sorted) ==
    IF sorted = << >> THEN <<s>>
    ELSE IF StringLess(s, Head(sorted)) THEN <<s>> \o sorted
    ELSE <<Head(sorted)>> \o Insert(s, Tail(sorted))

\* sort.Strings(a)
RECURSIVE SortStrings(_)
SortStrings(a) ==
    IF a = << >> THEN << >> ELSE Insert(Head(a), SortStrings(Tail(a)))

\* strings.Join(a, sep)
RECURSIVE Join(_, _)
Join(a, sep) ==
    IF a = << >> THEN << >>
    ELSE IF Len(a) = 1 THEN a[1]
    ELSE a[1] \o sep \o Join(Tail(a), sep)

\* strings.Replace(s, ",", " ", -1)
ReplaceCommas(s) == [i \in 1..Len(s) |-> IF s[i] = 44 THEN 32 ELSE s[i]]

\* html.EscapeString(s): & ' < >  are replaced by their entities
EscapeByte(b) ==
    CASE b = 38 -> <<38,97,109,112,59>>             \* "&amp;"
      [] b = 39 -> <<38,35,51,57,59>>               \* "&#39;"
      [] b = 60 -> <<38,108,116,59>>                \* "&lt;"
      [] b = 62 -> <<38,103,116,59>>                \* "&gt;"
      [] b = 34 -> <<38,35,51,52,59>>               \* "&#34;"
      [] OTHER -> <<b>>

RECURSIVE EscapeString(_)
EscapeString(s) ==
    IF s = << >> THEN << >> ELSE EscapeByte(Head(s)) \o EscapeString(Tail(s))

----------------------------------------------------------------------------
(* Identifier classifier *)

RECURSIVE isPHIDLoop(_, _)
isPHIDLoop(value, phids) ==
    IF phids = << >> THEN FALSE
    ELSE IF HasPrefix(value, IsPHIDType \o Head(phids) \o Dash) THEN TRUE
    ELSE isPHIDLoop(value, Tail(phids))

\* a variant that forgets the "-" closing the type segment
isPHIDNoDash(value, phids) ==
    /\ HasPrefix(value, IsPHIDType)
    /\ \E i \in 1..Len(phids) : HasPrefix(value, IsPHIDType \o phids[i])

isPHID(value, phids) ==
    IF HasPrefix(value, IsPHIDType) THEN isPHIDLoop(value, phids) ELSE FALSE

----------------------------------------------------------------------------
(* The configuration main() builds from the environment, and the remote    *)
(* tracker's objects.  conf.debug is false.                                *)

USER == <<85,83,69,82>>                             \* "USER"
TASK == <<84,65,83,75>>                             \* "TASK"
ConfResolving == <<USER, TASK>>                     \* SYNAPSE_FEED_PHIDS=USER,TASK
ConfUrl == <<104>>                                  \* SYNAPSE_HOST=h
ConfToken == <<116>>                                \* SYNAPSE_API_TOKEN=t
FeedRoom == <<102,101,101,100>>                     \* SYNAPSE_FEED_ROOM=feed

idA == <<80,72,73,68,45,85,83,69,82,45,97>>         \* "PHID-USER-a"
idB == <<80,72,73,68,45,84,65,83,75,45,98>>         \* "PHID-TASK-b"
idC == <<80,72,73,68,45,88,88,88,88,45,99>>         \* "PHID-XXXX-c": no listed type
Ids == {idA, idB}

NameA == <<97,121>>                                 \* "ay"
NameB == <<98,38>>                                  \* "b&"
\* the tracker's object for an identifier: {phid, name, uri}
TrackerObject(id) ==
    IF id = idA THEN [phid |-> idA, name |-> NameA, uri |-> <<47,117,50>>]  \* "/u2"
                ELSE [phid |-> idB, name |-> NameB, uri |-> <<47,117,49>>]  \* "/u1"

\* the alias table initLookups has loaded: "ay" has the alias "al,ias"
AliasTable == [n \in {NameA} |-> <<97,108,44,105,97,115>>]

\* fmt.Sprintf(MatrixPost, conf.url, room, conf.token)
getMatrixPost(room) ==
    ConfUrl \o <<47,95,109,97,116,114,105,120,47,99,108,105,101,110,116,47,
                 114,48,47,114,111,111,109,115,47>>     \* "/_matrix/client/r0/rooms/"
            \o room
            \o <<47,115,101,110,100,47,109,46,114,111,111,109,46,109,101,115,
                 115,97,103,101,63,97,99,99,101,115,115,95,116,111,107,101,
                 110,61>>                   \* "/send/m.room.message?access_token="
            \o ConfToken

ConfRoom == getMatrixPost(FeedRoom)                 \* conf.room

----------------------------------------------------------------------------
(* Inbound events: r.Form, a map from field name to its values.  Go ranges *)
(* over a map in an unspecified order, so each scan draws an order.  The   *)
(* comments beside the JSON texts leave their double quotes out.           *)

Perms(S) ==
    {p \in [1..Cardinality(S) -> S] :
        \A i, j \in 1..Cardinality(S) : p[i] = p[j] => i = j}

Hello == <<104,101,108,108,111,32>>                 \* "hello "
World == <<32,119,111,114,108,100>>                 \* " world"
Hi == <<72,105>>                                    \* "Hi"
Other == <<79,116,104,101,114>>                     \* "Other"

\* story texts of tagged stories
DocFull == <<123,34,116,97,103,34,58,34,114,49,34,44,34,116,105,116,108,101,
             34,58,34,72,105,34,44,34,120,34,58,34,49,34,125>>
                                        \* {tag:r1,title:Hi,x:1}
DocTwo == <<123,34,116,97,103,34,58,34,114,49,34,44,34,116,105,116,108,101,
            34,58,34,72,105,34,44,34,120,34,58,34,49,34,44,34,121,34,58,34,50,
            34,125>>                    \* {tag:r1,title:Hi,x:1,y:2}
DocHead == <<123,34,116,97,103,34,58,34,114,49,34,44>>      \* {tag:r1,
DocTail == <<34,116,105,116,108,101,34,58,34,72,105,34,125>> \* title:Hi}
DocNoTitle == <<123,34,116,97,103,34,58,34,114,49,34,44,34,120,34,58,34,49,
                34,125>>                \* {tag:r1,x:1}
DocNoTag == <<123,34,116,105,116,108,101,34,58,34,72,105,34,44,34,120,34,58,
              34,49,34,125>>            \* {title:Hi,x:1}
DocNumber == <<123,34,116,97,103,34,58,34,114,49,34,44,34,116,105,116,108,
               101,34,58,49,125>>       \* {tag:r1,title:1}
DocNull == <<110,117,108,108>>          \* null

R1 == <<114,49>>                                    \* "r1"
KeyX == <<120>>                                     \* "x"
KeyY == <<121>>                                     \* "y"
One == <<49>>                                       \* "1"
Two == <<50>>                                       \* "2"

\* the text of the paste holding the aliases, and what it may hold instead
PasteWhole == <<123,34,97,121,34,58,34,97,108,44,105,97,115,34,125>>
                                        \* {ay:al,ias}
PasteMixed == <<123,34,98,38,34,58,49,44,34,97,121,34,58,34,97,108,44,105,97,
                115,34,125>>            \* {b&:1,ay:al,ias}
PasteText == <<97,108,44,105,97,115>>   \* al,ias

\* json.Unmarshal([]byte(text), &output) with output a map[string]string: the
\* object's members when text is a JSON object of strings, the nil map for
\* null, an error and an untouched map for a text that is not JSON.  For an
\* object with a member that is no string the decoder saves the error and
\* goes on: the member is set to the empty string, the others to their
\* values, and the error is returned.  The texts the model can carry.
Unmarshal(text) ==
    CASE text = DocFull ->
           [err |-> FALSE,
            output |-> (IsTag :> R1) @@ (IsTitle :> Hi) @@ (KeyX :> One)]
      [] text = DocTwo ->
           [err |-> FALSE,
            output |-> (IsTag :> R1) @@ (IsTitle :> Hi) @@ (KeyX :> One)
                                     @@ (KeyY :> Two)]
      [] text = DocHead \o DocTail ->
           [err |-> FALSE, output |-> (IsTag :> R1) @@ (IsTitle :> Hi)]
      [] text = DocNoTitle ->
           [err |-> FALSE, output |-> (IsTag :> R1) @@ (KeyX :> One)]
      [] text = DocNoTag ->
           [err |-> FALSE, output |-> (IsTitle :> Hi) @@ (KeyX :> One)]
      [] text = DocNumber ->
           [err |-> TRUE, output |-> (IsTag :> R1) @@ (IsTitle :> Empty)]
      [] text = DocNull -> [err |-> FALSE, output |-> << >>]
      [] text = PasteWhole ->
           [err |-> FALSE, output |-> AliasTable]
      [] text = PasteMixed ->
           [err |-> TRUE, output |-> (NameB :> Empty) @@ AliasTable]
      [] OTHER -> [err |-> TRUE, output |-> << >>]

\* the forms the feed may send
Plain(ids) == ("storyText" :> <<Hello, World>>) @@ ("storyData" :> ids)
Tagged(doc) ==
    ("storyText" :> doc) @@ ("storyType" :> <<TaggedStoryType>>)
                         @@ ("storyAuthorPHID" :> <<idA>>)
Forms ==
    { Plain(<<idC>>),
      ("storyText" :> <<Hello, World>>) @@ ("storyType" :> <<Other>>),
      Plain(<<idA>>), Plain(<<idB>>), Plain(<<idA, idA>>),
      ("storyText" :> <<Hi>>) @@ ("storyAuthorPHID" :> <<idA>>)
                              @@ ("storyData" :> <<idC, idB>>),
      Tagged(<<DocFull>>), Tagged(<<DocTwo>>), Tagged(<<DocHead, DocTail>>), Tagged(<<DocNoTitle>>),
      Tagged(<<DocNoTag>>), Tagged(<<DocNumber>>), Tagged(<<DocNull>>),
      Tagged(<<Hello, World>>),
      ("storyText" :> <<DocFull>>) @@ ("storyType" :> <<TaggedStoryType>>),
      ("storyType" :> <<TaggedStoryType>>) @@ ("storyAuthorPHID" :> <<idA>>),
      ("storyData" :> <<idB, idA>>) }

----------------------------------------------------------------------------
(* postStory: the scan of the form fields (lines 360-385) *)

\* a variant in which the tagged type counts only while no identifier has
\* been collected
RECURSIVE ScanValuesTagFirst(_, _, _)
ScanValuesTagFirst(k, v, acc) ==
    IF v = << >> THEN acc
    ELSE LET element == Head(v)
             next ==
                 IF isPHID(element, ConfResolving)
                 THEN [acc EXCEPT !.phids = Append(@, element)]
                 ELSE IF k = "storyType" /\ element = TaggedStoryType
                         /\ acc.phids = << >>
                      THEN [acc EXCEPT !.isTagged = TRUE]
                      ELSE acc
         IN  ScanValuesTagFirst(k, Tail(v), next)

\* the values of one field other than storyText
RECURSIVE ScanValues(_, _, _)
ScanValues(k, v, acc) ==
    IF v = << >> THEN acc
    ELSE LET element == Head(v)
             next ==
                 IF isPHID(element, ConfResolving)
                 THEN [acc EXCEPT !.phids = Append(@, element)]
                 ELSE IF k = "storyType" /\ element = TaggedStoryType
                      THEN [acc EXCEPT !.isTagged = TRUE]
                      ELSE acc
         IN  ScanValues(k, Tail(v), next)

\* a variant that takes every field that has a value for the story text
RECURSIVE ScanFormAnyField(_, _, _)
ScanFormAnyField(form, order, acc) ==
    IF order = << >> THEN acc
    ELSE LET k == Head(order)
             v == form[k]
             next == IF Len(v) > 0
                     THEN [acc EXCEPT !.isStory = TRUE, !.story = @ \o v]
                     ELSE acc
         IN  ScanFormAnyField(form, Tail(order), next)

\* the fields in the order the range yields them
RECURSIVE ScanForm(_, _, _)
ScanForm(form, order, acc) ==
    IF order = << >> THEN acc
    ELSE LET k == Head(order)
             v == form[k]
             next ==
                 IF Len(v) > 0
                 THEN IF k = "storyText"
                      THEN [acc EXCEPT !.isStory = TRUE, !.story = @ \o v]
                      ELSE ScanValues(k, v, acc)
                 ELSE acc
         IN  ScanForm(form, Tail(order), next)

ScanStart ==
    [isStory |-> FALSE, phids |-> << >>, story |-> << >>, isTagged |-> FALSE]

(* postStory: the tagged story (lines 400-433) *)

UnableToRead == <<117,110,97,98,108,101,32,116,111,32,114,101,97,100,32,116,
                  97,103,103,101,100,32,115,116,111,114,121>>
                                        \* "unable to read tagged story"
UnableToParse == <<117,110,97,98,108,101,32,116,111,32,112,97,114,115,101,32,
                   116,97,103,103,101,100,32,115,116,111,114,121>>
                                        \* "unable to parse tagged story"

\* fmt.Sprintf("%s (%s -> %s)", addedStory, k, v)
AddStory(addedStory, k, v) ==
    addedStory \o <<32,40>> \o k \o <<32,45,62,32>> \o v \o <<41>>

\* a variant in which the title starts the text over, dropping the suffixes
\* of the keys ranged over before it
RECURSIVE TaggedLoopTitleResets(_, _, _, _)
TaggedLoopTitleResets(output, order, tagged, acc) ==
    IF order = << >> THEN acc
    ELSE LET k == Head(order)
             v == output[k]
             next ==
                 IF k = IsTag THEN acc
                 ELSE IF k = IsTitle
                      THEN [acc EXCEPT !.isValid = TRUE,
                                       !.toRoom = getMatrixPost(tagged),
                                       !.storyText = v, !.addedStory = << >>]
                      ELSE [acc EXCEPT !.addedStory = AddStory(@, k, v)]
         IN  TaggedLoopTitleResets(output, Tail(order), tagged, next)

\* the range over the parsed object, in the order it yields the keys
RECURSIVE TaggedLoop(_, _, _, _)
TaggedLoop(output, order, tagged, acc) ==
    IF order = << >> THEN acc
    ELSE LET k == Head(order)
             v == output[k]
             next ==
                 IF k = IsTag THEN acc
                 ELSE IF k = IsTitle
                      THEN [acc EXCEPT !.isValid = TRUE,
                                       !.toRoom = getMatrixPost(tagged),
                                       !.storyText = v]
                      ELSE [acc EXCEPT !.addedStory = AddStory(@, k, v)]
         IN  TaggedLoop(output, Tail(order), tagged, next)

\* a variant that writes the errors and goes on to post the story
TaggedStoryNoReturn(storyText, toRoom, order) ==
    LET parsed == Unmarshal(storyText)
        output == parsed.output
        start == [isValid |-> FALSE, toRoom |-> toRoom,
                  storyText |-> storyText, addedStory |-> << >>]
        looped == IF IsTag \in DOMAIN output
                  THEN LET acc == TaggedLoop(output, order, output[IsTag], start)
                       IN  [acc EXCEPT !.storyText = @ \o acc.addedStory]
                  ELSE start
    IN  [return |-> FALSE,
         errors |-> IF parsed.err THEN <<UnableToRead>>
                    ELSE IF ~looped.isValid
                         THEN <<UnableToParse, looped.storyText>>
                         ELSE << >>,
         toRoom |-> looped.toRoom, storyText |-> looped.storyText]

\* lines 404-432: the room and text of a tagged story, or the errors written
\* when it is discarded
TaggedStory(storyText, toRoom, order) ==
    LET parsed == Unmarshal(storyText)
        output == parsed.output
        start == [isValid |-> FALSE, toRoom |-> toRoom,
                  storyText |-> storyText, addedStory |-> << >>]
        looped == IF IsTag \in DOMAIN output
                  THEN LET acc == TaggedLoop(output, order, output[IsTag], start)
                       IN  [acc EXCEPT !.storyText = @ \o acc.addedStory]
                  ELSE start
    IN  IF parsed.err
        THEN [return |-> TRUE, errors |-> <<UnableToRead>>,
              toRoom |-> toRoom, storyText |-> storyText]
        ELSE IF ~looped.isValid
        THEN [return |-> TRUE, errors |-> <<UnableToParse, looped.storyText>>,
              toRoom |-> looped.toRoom, storyText |-> looped.storyText]
        ELSE [return |-> FALSE, errors |-> << >>,
              toRoom |-> looped.toRoom, storyText |-> looped.storyText]

\* the orders in which the parsed object of a story text can be ranged over
OutputOrders(storyText) == Perms(DOMAIN Unmarshal(storyText).output)

----------------------------------------------------------------------------
(* execute (lines 164-175): the JSON document posted to the room *)

References == <<60,98,114,32,47,62,32,40,114,101,102,101,114,101,110,99,101,
                115,58,32>>             \* "<br /> (references: "

\* a variant that leaves the references footer out
FormattedBodyNoFooter(text, phids) ==
    BodyStart \o EscapeString(text) \o BodyEnd

\* a variant that writes the references footer whatever the list holds
FormattedBodyAlways(text, phids) ==
    BodyStart \o EscapeString(text) \o References \o Join(phids, <<44,32>>)
              \o <<41>> \o BodyEnd

FormattedBody(text, phids) ==
    LET val == EscapeString(text)
        full == IF Len(phids) > 0
                THEN val \o References \o Join(phids, <<44,32>>) \o <<41>>
                ELSE val
    IN  BodyStart \o full \o BodyEnd

execute(text, url, phids) ==
    [url |-> url,
     data |-> [msgtype |-> <<109,46,116,101,120,116>>,              \* "m.text"
               body |-> BodyStart,
               format |-> <<111,114,103,46,109,97,116,114,105,120,46,99,117,
                            115,116,111,109,46,104,116,109,108>>,
                                                    \* "org.matrix.custom.html"
               formatted_body |-> FormattedBody(text, phids)]]

----------------------------------------------------------------------------
(* resolvePHIDs: its pieces (lines 283-349) *)

Range(s) == {s[i] : i \in 1..Len(s)}

\* a variant that asks the tracker for every identifier, cached or not
FirstPassAll(phids, element, loaded) == Append(phids, element)

\* a variant that remembers what was asked for: an identifier some call has
\* carried is not asked for again
FirstPassAsked(phids, element, loaded) ==
    IF element \notin loaded /\ sent[element] = 0
    THEN Append(phids, element) ELSE phids

\* lines 289-294: one turn of the first loop, a cache.Load and the append
FirstPass(phids, element, loaded) ==
    IF element \notin loaded THEN Append(phids, element) ELSE phids

\* a variant that takes every member of the result for a parsed object
ParsedAlways(v) == TRUE

\* lines 312-317: json.Unmarshal(v, &final) returns no error
Parsed(v) == v = "object"

\* a variant that stores the hyperlink and never the alias
ResolvedLinkOnly(final, table) ==
    << <<60,97,32,104,114,101,102,61,39>> \o final.uri \o <<39,62>>
          \o EscapeString(final.name) \o <<60,47,97,62>> >>

\* lines 318-325: the fragments built from one parsed object
Resolved(final, table) ==
    LET link == <<60,97,32,104,114,101,102,61,39>> \o final.uri   \* "<a href='"
                \o <<39,62>> \o EscapeString(final.name)            \* "'>"
                \o <<60,47,97,62>>                                  \* "</a>"
    IN  IF final.name \in DOMAIN table
        THEN <<link, <<97,107,97,58,32>> \o ReplaceCommas(table[final.name])>>
                                                                    \* "aka: "
        ELSE <<link>>

\* a variant that keeps the newest entry only
CacheStoreOnly(c, final, resolved) ==
    [k \in {final.phid} |-> resolved]

\* a variant that stores under the object's name
CacheStoreByName(c, final, resolved) ==
    [k \in DOMAIN c \cup {final.name} |->
        IF k = final.name THEN resolved ELSE c[k]]

\* line 326: conf.cache.Store(final["phid"], resolved)
CacheStore(c, final, resolved) ==
    [k \in DOMAIN c \cup {final.phid} |->
        IF k = final.phid THEN resolved ELSE c[k]]

\* a variant that takes the first fragment of an entry and leaves the rest
SecondPassFirst(element, c) ==
    IF element \in DOMAIN c THEN <<c[element][1]>> ELSE << >>

\* lines 334-340: one turn of the second loop, the fragments loaded for element
SecondPass(element, c) ==
    IF element \in DOMAIN c THEN c[element] ELSE << >>

\* a variant that returns the list as the second loop built it
ReturnUnsorted(results) == results

\* lines 344-348: what resolvePHIDs returns
Return(results) ==
    IF Len(results) > 0 THEN SortStrings(results) ELSE results

\* What postBody's call to phid.query can come back with, for the request
\* carrying `phids`: a transport failure, a body that is no JSON object, a
\* result that is no JSON object, or a result holding, for any part of the
\* identifiers asked for, the tracker's object or one that does not parse
\* into a map of strings.
Responses(phids) ==
    {[kind |-> k, res |-> << >>] : k \in {"transport", "envelope", "result"}}
    \cup
    {[kind |-> "ok", res |-> r] :
        r \in UNION {[K -> {"object", "malformed"}] : K \in SUBSET Range(phids)}}

MsgGo == <<103,111>>                                \* "go"
MsgPHIDs == <<80,72,73,68,115>>                     \* "PHIDs"
MsgResults == <<82,101,115,117,108,116,115>>        \* "Results"
MsgObject == <<111,98,106,101,99,116>>              \* "object"
MsgReq == <<114,101,113>>                           \* "req"

\* the errors postBody and getJSON write for a response (lines 136-137, 196-198)
ResponseErrors(resp) ==
    CASE resp.kind = "transport" -> <<MsgGo, MsgPHIDs>>
      [] resp.kind = "envelope" -> <<MsgPHIDs>>
      [] resp.kind = "result" -> <<MsgResults>>
      [] OTHER -> << >>

----------------------------------------------------------------------------
(* initLookups (lines 236-276): the alias table read from a paste *)

UnableToReadPaste == <<117,110,97,98,108,101,32,116,111,32,114,101,97,100,32,
                       112,97,115,116,101>>         \* "unable to read paste"
IncorrectPasteCount == <<105,110,99,111,114,114,101,99,116,32,112,97,115,116,
                         101,32,99,111,117,110,116>>
                                                    \* "incorrect paste count"
MsgContents == <<99,111,110,116,101,110,116,115>>   \* "contents"
NoFinalCount == <<110,111,32,102,105,110,97,108,32,99,111,117,110,116,32,102,
                  111,117,110,100>>                 \* "no final count found"
InvalidPaste == <<105,110,118,97,108,105,100,32,112,97,115,116,101,32,106,
                  115,111,110>>                     \* "invalid paste json"

\* What postBody's call to paste.search can come back with: a transport
\* failure; a body that is no JSON object; a result that is no JSON object;
\* a result whose data is no array; an array of no document, or of two; one
\* document that lacks attachments.content or is no object on the way to
\* it; one whose attachments.content.content is missing or no string; or
\* one document whose attachments.content.content is the text `data`.
PasteShapes ==
    {"transport", "envelope", "result", "data", "none", "many", "document",
     "content"}

PasteResponses ==
    {[kind |-> k, data |-> Empty] : k \in PasteShapes}
    \cup
    {[kind |-> "paste", data |-> d] :
        d \in {PasteWhole, PasteMixed, PasteText, DocNull, Empty}}

\* the response that holds the alias table
PasteFound == [kind |-> "paste", data |-> PasteWhole]

\* lines 241-275: the map returned and the errors written, for the response
\* the one call got.  The map is the one json.Unmarshal was given (line 260),
\* with whatever the decoder has set in it, error or not.
initLookups(resp) ==
    LET parsed == Unmarshal(resp.data)
        none == << >>
    IN  CASE resp.kind = "transport" ->
               [lookups |-> none, errors |-> <<MsgGo, MsgPHIDs>>]
          [] resp.kind = "envelope" ->
               [lookups |-> none, errors |-> <<MsgPHIDs>>]
          [] resp.kind = "result" ->
               [lookups |-> none, errors |-> <<MsgResults>>]
          [] resp.kind = "data" ->
               [lookups |-> none, errors |-> <<UnableToReadPaste>>]
          [] resp.kind \in {"none", "many"} ->
               [lookups |-> none, errors |-> <<IncorrectPasteCount>>]
          [] resp.kind = "document" ->
               [lookups |-> none, errors |-> <<MsgContents>>]
          [] resp.kind = "content" ->
               [lookups |-> none, errors |-> <<NoFinalCount>>]
          [] OTHER ->
               [lookups |-> parsed.output,
                errors |-> IF parsed.err THEN <<InvalidPaste>> ELSE << >>]

----------------------------------------------------------------------------
(* The logger: goroutines running writeRawLog (lines 84-118) *)

ErrorCategory == <<32,91,69,82,82,79,82,93,32>>     \* " [ERROR] ", after the time

\* a variant that writes the category and leaves the message out
writeLogNoMessage(category, message) ==
    [prefix |-> "", category |-> category, message |-> Empty, pc |-> "lock"]

\* go writeLog(category, message, conf)
writeLog(category, message) ==
    [prefix |-> "", category |-> category, message |-> message, pc |-> "lock"]

\* go writeLogError(message, conf), from writeError
writeLogError(message) ==
    [prefix |-> "error.", category |-> ErrorCategory, message |-> message,
     pc |-> "lock"]

RECURSIVE Spawn(_, _)
Spawn(ws, new) ==
    IF new = << >> THEN ws
    ELSE Spawn([w \in DOMAIN ws \cup {Head(new)} |->
                  IF w \in DOMAIN ws
                  THEN IF w = Head(new) THEN ws[w] + 1 ELSE ws[w]
                  ELSE 1],
               Tail(new))

\* writeError(message, err, conf) for each message
WriteErrors(ws, messages) ==
    Spawn(ws, [i \in 1..Len(messages) |-> writeLogError(messages[i])])

\* one goroutine of the bag moves on, or ends
Move(ws, w, to) ==
    LET less == [v \in {u \in DOMAIN ws : u # w \/ ws[u] > 1} |->
                    IF v = w THEN ws[v] - 1 ELSE ws[v]]
    IN  IF to = "end" THEN less ELSE Spawn(less, <<[w EXCEPT !.pc = to]>>)

\* the line fmt.Fprintf writes (line 117), with the file it goes to
Line(w) == [file |-> w.prefix, category |-> w.category, message |-> w.message]

----------------------------------------------------------------------------
(* The state machine *)

Handlers == 1..NumHandlers

None == "none"

\* a handler between two events; the fields are the locals of postStory and
\* resolvePHIDs, then the history of the event being handled
Idle ==
    [pc |-> "idle", form |-> << >>,
     isStory |-> FALSE, isTagged |-> FALSE, phids |-> << >>,
     storyText |-> << >>, toRoom |-> ConfRoom,
     resolving |-> << >>, misses |-> << >>, i |-> 1, res |-> << >>,
     results |-> << >>,
     invoked |-> FALSE,     \* resolvePHIDs was called
     loads |-> << >>,       \* what each cache.Load of the first loop found
     hits |-> << >>,        \* what each cache.Load of the second loop found
     calls |-> 0,           \* phid.query calls made by the invocation
     kind |-> None,         \* what its call came back with
     carried |-> {},        \* identifiers its call carried
     got |-> {},            \* identifiers the response held a parsed object for
     nstores |-> 0,         \* cache.Store calls made
     audits |-> << >>,      \* go writeLog calls made: <<category, message>>
     errors |-> << >>,      \* writeError calls made: the messages
     posted |-> << >>,      \* POSTs made to the messaging endpoint
     prior |-> {},          \* invocations that had returned when this one began
     outcome |-> None]

MsgStartup == <<115,116,97,114,116,117,112>>        \* "startup"
MsgStarted == <<115,116,97,114,116,101,100>>        \* "started"

StartupLine == [file |-> "", category |-> MsgStartup, message |-> MsgStarted]

\* main() has run: the alias table is loaded, the startup line is written,
\* the cache is empty and the server listens
Serving ==
    /\ cache = << >>
    /\ lookups = AliasTable
    /\ main = [pc |-> "serve", paste |-> <<PasteFound>>]
    /\ logger = FALSE
    /\ writers = << >>
    /\ logfile = Spawn(<< >>, <<StartupLine>>)
    /\ hs = [h \in Handlers |-> Idle]
    /\ events = 0
    /\ sent = [id \in Ids |-> 0]
    /\ stores = [id \in Ids |-> 0]
    /\ finished = {}
    /\ unanswered = {}

\* what the feed sends in the behaviours of Spec
Feed == [forms |-> Forms, limit |-> MaxEvents, pastes |-> {PasteFound}]

Init ==
    /\ Serving
    /\ feed = Feed
    /\ arg = << >>
    /\ ret = << >>

\* a variant that resolves the identifiers of tagged stories too
NeedsResolveAlways(scan) == Len(scan.phids) > 0

\* lines 387-395: resolvePHIDs is called for the identifiers of a story that
\* is not tagged
NeedsResolve(scan) == Len(scan.phids) > 0 /\ ~scan.isTagged

Discarded(r, messages) ==
    [r EXCEPT !.pc = "done", !.outcome = "Discarded",
              !.errors = @ \o messages]

\* postStory up to its first call that leaves the handler: the scan, then the
\* tagged story or the entry into resolvePHIDs
postStory(h, form, order, order2) ==
    LET scan == ScanForm(form, order, ScanStart)
        storyText == Join(scan.story, << >>)
        r == [Idle EXCEPT !.form = form, !.isStory = scan.isStory,
                          !.isTagged = scan.isTagged, !.phids = scan.phids,
                          !.storyText = storyText]
        tagged == TaggedStory(storyText, ConfRoom, order2)
    IN  IF ~scan.isStory
        THEN /\ hs' = [hs EXCEPT ![h] = Discarded(r, << >>)]
             /\ UNCHANGED writers
        ELSE IF NeedsResolve(scan)
        THEN /\ hs' = [hs EXCEPT ![h] =
                        [r EXCEPT !.pc = "load1", !.invoked = TRUE,
                                  !.resolving = scan.phids,
                                  !.prior = finished]]
             /\ UNCHANGED writers
        ELSE IF ~scan.isTagged
        THEN /\ hs' = [hs EXCEPT ![h] = [r EXCEPT !.pc = "execute"]]
             /\ UNCHANGED writers
        ELSE IF tagged.return
        THEN /\ hs' = [hs EXCEPT ![h] =
                        Discarded([r EXCEPT !.phids = << >>,
                                            !.storyText = tagged.storyText,
                                            !.toRoom = tagged.toRoom],
                                  tagged.errors)]
             /\ writers' = WriteErrors(writers, tagged.errors)
        ELSE /\ hs' = [hs EXCEPT ![h] =
                        [r EXCEPT !.pc = "execute", !.phids = << >>,
                                  !.storyText = tagged.storyText,
                                  !.toRoom = tagged.toRoom]]
             /\ UNCHANGED writers

Receive(h) ==
    /\ main.pc = "serve"
    /\ hs[h].pc \in {"idle", "done"}
    /\ events < feed.limit
    /\ events' = events + 1
    /\ \E form \in feed.forms :
         \E order \in Perms(DOMAIN form) :
           LET scan == ScanForm(form, order, ScanStart)
           IN  \E order2 \in OutputOrders(Join(scan.story, << >>)) :
                 postStory(h, form, order, order2)
    /\ UNCHANGED <<cache, lookups, feed, main, logger, logfile, sent, stores, finished,
                   unanswered, arg, ret>>

\* resolvePHIDs, first loop: one cache.Load
Load1(h) ==
    LET r == hs[h]
        phids == FirstPass(r.misses, r.resolving[r.i], DOMAIN cache)
        last == r.i = Len(r.resolving)
    IN  /\ r.pc = "load1"
        /\ hs' = [hs EXCEPT ![h] =
                    [r EXCEPT !.misses = phids,
                              !.loads = Append(@, r.resolving[r.i]
                                                     \in DOMAIN cache),
                              !.i = IF last THEN 1 ELSE r.i + 1,
                              !.pc = IF ~last THEN "load1"
                                     ELSE IF Len(phids) > 0 THEN "post"
                                     ELSE "load2"]]
        /\ UNCHANGED <<cache, lookups, feed, main, logger, writers, logfile, events, sent,
                       stores, finished, unanswered, arg, ret>>

\* a variant in which one handler at a time is in its call to the tracker
PostBodyInTurn(h) ==
    LET r == hs[h]
    IN  /\ r.pc = "post"
        /\ \A g \in Handlers : hs[g].calls = 0 \/ hs[g].kind # None
        /\ sent' = [id \in Ids |->
                      IF id \in Range(r.misses) THEN sent[id] + 1 ELSE sent[id]]
        /\ hs' = [hs EXCEPT ![h] =
                    [r EXCEPT !.pc = "wait", !.calls = @ + 1,
                              !.carried = Range(r.misses)]]
        /\ UNCHANGED <<cache, lookups, feed, main, logger, writers, logfile,
                       events, stores, finished, unanswered, arg, ret>>

\* resolvePHIDs line 306: postBody sends the one request carrying the misses
PostBody(h) ==
    LET r == hs[h]
    IN  /\ r.pc = "post"
        /\ sent' = [id \in Ids |->
                      IF id \in Range(r.misses) THEN sent[id] + 1 ELSE sent[id]]
        /\ hs' = [hs EXCEPT ![h] =
                    [r EXCEPT !.pc = "wait", !.calls = @ + 1,
                              !.carried = Range(r.misses)]]
        /\ UNCHANGED <<cache, lookups, feed, main, logger, writers, logfile, events,
                       stores, finished, unanswered, arg, ret>>

\* lines 306-310: the response comes back and is unwrapped
Response(h) ==
    LET r == hs[h]
    IN  /\ r.pc = "wait"
        /\ \E resp \in Responses(r.misses) :
             LET errs == ResponseErrors(resp)
                 more == DOMAIN resp.res # {}
             IN  /\ hs' = [hs EXCEPT ![h] =
                            [r EXCEPT !.pc = IF more THEN "store" ELSE "load2",
                                      !.res = resp.res,
                                      !.kind = resp.kind,
                                      !.got = {k \in DOMAIN resp.res :
                                                  resp.res[k] = "object"},
                                      !.errors = @ \o errs]]
                 /\ writers' = WriteErrors(writers, errs)
                 /\ unanswered' = unanswered \cup
                        {k \in r.carried :
                            k \notin DOMAIN resp.res \/ resp.res[k] # "object"}
        /\ UNCHANGED <<cache, lookups, feed, main, logger, logfile, events, sent, stores,
                       finished, arg, ret>>

\* lines 311-327: one turn of the range over the result, in the map's order
Store(h) ==
    LET r == hs[h]
    IN  /\ r.pc = "store"
        /\ \E k \in DOMAIN r.res :
             LET rest == [j \in DOMAIN r.res \ {k} |-> r.res[j]]
                 pc == IF DOMAIN rest = {} THEN "load2" ELSE "store"
                 final == TrackerObject(k)
             IN  IF ~Parsed(r.res[k])
                 THEN /\ hs' = [hs EXCEPT ![h] =
                                 [r EXCEPT !.pc = pc, !.res = rest,
                                           !.errors = Append(@, MsgObject)]]
                      /\ writers' = WriteErrors(writers, <<MsgObject>>)
                      /\ UNCHANGED <<cache, stores>>
                 ELSE /\ hs' = [hs EXCEPT ![h] =
                                 [r EXCEPT !.pc = pc, !.res = rest,
                                           !.nstores = @ + 1]]
                      /\ cache' = CacheStore(cache, final,
                                             Resolved(final, lookups))
                      /\ stores' = [stores EXCEPT ![final.phid] = @ + 1]
                      /\ UNCHANGED writers
        /\ UNCHANGED <<lookups, feed, main, logger, logfile, events, sent, finished,
                       unanswered, arg, ret>>

\* a variant that calls writeLog without `go`: the handler goes on when the
\* logger's lock is free
Load2Waits(h) ==
    LET r == hs[h]
        element == r.resolving[r.i]
        writeRefs == SecondPass(element, cache)
        results == r.results \o writeRefs
        message == Join(writeRefs, <<32>>)
        last == r.i = Len(r.resolving)
    IN  /\ r.pc = "load2"
        /\ ~logger
        /\ writers' = Spawn(writers, <<writeLog(element, message)>>)
        /\ hs' = [hs EXCEPT ![h] =
                    [r EXCEPT !.results = results,
                              !.audits = Append(@, <<element, message>>),
                              !.hits = Append(@, element \in DOMAIN cache),
                              !.i = IF last THEN 1 ELSE r.i + 1,
                              !.phids = IF last THEN Return(results) ELSE @,
                              !.pc = IF last THEN "execute" ELSE "load2"]]
        /\ finished' = IF last
                       THEN finished \cup
                            {[resolving |-> r.resolving, calls |-> r.calls,
                              got |-> r.got]}
                       ELSE finished
        /\ UNCHANGED <<cache, lookups, feed, main, logger, logfile, events, sent, stores,
                       unanswered, arg, ret>>

\* lines 332-348: one turn of the second loop; after the last, the sort and
\* the return into postStory (line 394)
Load2(h) ==
    LET r == hs[h]
        element == r.resolving[r.i]
        writeRefs == SecondPass(element, cache)
        results == r.results \o writeRefs
        message == Join(writeRefs, <<32>>)
        last == r.i = Len(r.resolving)
    IN  /\ r.pc = "load2"
        /\ writers' = Spawn(writers, <<writeLog(element, message)>>)
        /\ hs' = [hs EXCEPT ![h] =
                    [r EXCEPT !.results = results,
                              !.audits = Append(@, <<element, message>>),
                              !.hits = Append(@, element \in DOMAIN cache),
                              !.i = IF last THEN 1 ELSE r.i + 1,
                              !.phids = IF last THEN Return(results) ELSE @,
                              !.pc = IF last THEN "execute" ELSE "load2"]]
        /\ finished' = IF last
                       THEN finished \cup
                            {[resolving |-> r.resolving, calls |-> r.calls,
                              got |-> r.got]}
                       ELSE finished
        /\ UNCHANGED <<cache, lookups, feed, main, logger, logfile, events, sent, stores,
                       unanswered, arg, ret>>

\* a variant that posts again when the send has failed
ExecuteRetries(h) ==
    LET r == hs[h]
    IN  /\ r.pc = "execute"
        /\ \E ok \in BOOLEAN :
             LET errs == IF ok THEN << >> ELSE <<MsgReq>>
             IN  /\ hs' = [hs EXCEPT ![h] =
                            [r EXCEPT !.pc = IF ok \/ Len(r.posted) > 0
                                             THEN "done" ELSE "execute",
                                      !.outcome = IF ok \/ Len(r.posted) > 0
                                                  THEN "Emitted" ELSE None,
                                      !.posted = Append(@,
                                          execute(r.storyText, r.toRoom, r.phids)),
                                      !.errors = @ \o errs]]
                 /\ writers' = WriteErrors(writers, errs)
        /\ UNCHANGED <<cache, lookups, feed, main, logger, logfile, events, sent,
                       stores, finished, unanswered, arg, ret>>

\* line 440: execute posts the message; a failed send is written as an error
Execute(h) ==
    LET r == hs[h]
    IN  /\ r.pc = "execute"
        /\ \E ok \in BOOLEAN :
             LET errs == IF ok THEN << >> ELSE <<MsgReq>>
             IN  /\ hs' = [hs EXCEPT ![h] =
                            [r EXCEPT !.pc = "done", !.outcome = "Emitted",
                                      !.posted = Append(@,
                                          execute(r.storyText, r.toRoom, r.phids)),
                                      !.errors = @ \o errs]]
                 /\ writers' = WriteErrors(writers, errs)
        /\ UNCHANGED <<cache, lookups, feed, main, logger, logfile, events, sent, stores,
                       finished, unanswered, arg, ret>>

\* a variant that goes on without the lock
LockAnyway(w) ==
    /\ w.pc = "lock"
    /\ logger' = TRUE
    /\ writers' = Move(writers, w, "open")
    /\ UNCHANGED <<cache, lookups, feed, main, logfile, hs, events, sent, stores,
                   finished, unanswered, arg, ret>>

\* writeRawLog line 107: conf.logger.Lock()
Lock(w) ==
    /\ w.pc = "lock"
    /\ ~logger
    /\ logger' = TRUE
    /\ writers' = Move(writers, w, "open")
    /\ UNCHANGED <<cache, lookups, feed, main, logfile, hs, events, sent, stores, finished,
                   unanswered, arg, ret>>

\* a variant that returns from a failed open with the lock still held
OpenFileKeepsLock(w) ==
    /\ w.pc = "open"
    /\ \E ok \in BOOLEAN :
         /\ logfile' = IF ok THEN Spawn(logfile, <<Line(w)>>) ELSE logfile
         /\ writers' = Move(writers, w, IF ok THEN "unlock" ELSE "end")
    /\ UNCHANGED <<cache, lookups, feed, main, logger, hs, events, sent, stores,
                   finished, unanswered, arg, ret>>

\* lines 111-117: the file is opened and the line appended, or the open fails
OpenFile(w) ==
    /\ w.pc = "open"
    /\ \E ok \in BOOLEAN :
         logfile' = IF ok THEN Spawn(logfile, <<Line(w)>>) ELSE logfile
    /\ writers' = Move(writers, w, "unlock")
    /\ UNCHANGED <<cache, lookups, feed, main, logger, hs, events, sent, stores, finished,
                   unanswered, arg, ret>>

\* line 108, deferred: conf.logger.Unlock(), and the goroutine ends
Unlock(w) ==
    /\ w.pc = "unlock"
    /\ logger' = FALSE
    /\ writers' = Move(writers, w, "end")
    /\ UNCHANGED <<cache, lookups, feed, main, logfile, hs, events, sent, stores, finished,
                   unanswered, arg, ret>>

\* main() lines 484-491: initLookups makes its one call and main goes on to
\* writeLog("startup", "started"), which it runs itself and waits for
InitLookups ==
    /\ main.pc = "init"
    /\ \E resp \in feed.pastes :
         LET out == initLookups(resp)
         IN  /\ lookups' = out.lookups
             /\ writers' = Spawn(WriteErrors(writers, out.errors),
                                 <<writeLog(MsgStartup, MsgStarted)>>)
             /\ main' = [pc |-> "startup", paste |-> Append(main.paste, resp)]
    /\ UNCHANGED <<cache, feed, logger, logfile, hs, events, sent, stores,
                   finished, unanswered, arg, ret>>

\* lines 492-502: writeLog has returned; the handlers are set and the server
\* listens
ListenAndServe ==
    /\ main.pc = "startup"
    /\ \A w \in DOMAIN writers : w.category # MsgStartup
    /\ main' = [main EXCEPT !.pc = "serve"]
    /\ UNCHANGED <<cache, lookups, feed, logger, writers, logfile, hs, events,
                   sent, stores, finished, unanswered, arg, ret>>

\* what one handler does after it has received its event
Step(h) ==
    \/ Load1(h)
    \/ PostBody(h)
    \/ Response(h)
    \/ Store(h)
    \/ Load2(h)
    \/ Execute(h)

\* The event handlers.  The goroutines they spawn for the log stay pending in
\* `writers`: no handler takes the logger's lock or reads the log, so what a
\* handler does is the same whenever those goroutines run.
Next ==
    \E h \in Handlers :
        \/ Receive(h)
        \/ Step(h)

Spec == Init /\ [][Next]_vars

----------------------------------------------------------------------------
(* The handlers when a call to the tracker or to the messaging endpoint may *)
(* never return                                                             *)

MaxStallEvents == 2 \* inbound events received in one behaviour of SpecStall

StallForms == { Plain(<<idA>>), Plain(<<idB, idA>>), Tagged(<<DocFull>>) }

\* http.DefaultClient.Do (line 135) or http.Post (line 157) does not return:
\* the handler stays in its call
Stall(h) ==
    /\ hs[h].pc \in {"wait", "execute"}
    /\ hs' = [hs EXCEPT ![h].pc = "stalled"]
    /\ UNCHANGED <<cache, lookups, feed, main, logger, writers, logfile, events,
                   sent, stores, finished, unanswered, arg, ret>>

InitStall ==
    /\ Serving
    /\ feed = [forms |-> StallForms, limit |-> MaxStallEvents,
               pastes |-> {PasteFound}]
    /\ arg = << >>
    /\ ret = << >>

NextStall ==
    \/ Next
    \/ \E h \in Handlers : Stall(h)

SpecStall == InitStall /\ [][NextStall]_vars

\* A handler whose call has returned, or that has not called yet, takes its
\* next step; a call may never return.
FairStall == SpecStall /\ \A h \in Handlers : WF_vars(Step(h))

----------------------------------------------------------------------------
(* The whole process: main() from its call to initLookups, the handlers and *)
(* the goroutines of the log, for a feed of events that cause log writes of *)
(* each kind                                                                *)

MaxLogEvents == 1   \* inbound events received in one behaviour of SpecLog

LogForms ==
    { Plain(<<idA>>), Plain(<<idB, idA>>), Plain(<<idC>>),
      Tagged(<<DocNoTitle>>), Tagged(<<DocFull>>),
      ("storyData" :> <<idB, idA>>) }

\* main() is about to call initLookups: no alias table yet, no log line
Starting ==
    /\ cache = << >>
    /\ lookups = << >>
    /\ main = [pc |-> "init", paste |-> << >>]
    /\ logger = FALSE
    /\ writers = << >>
    /\ logfile = << >>
    /\ hs = [h \in Handlers |-> Idle]
    /\ events = 0
    /\ sent = [id \in Ids |-> 0]
    /\ stores = [id \in Ids |-> 0]
    /\ finished = {}
    /\ unanswered = {}
    /\ arg = << >>
    /\ ret = << >>

\* the alias table is found, or the call's answer is no JSON object and one
\* error is written while main writes its startup line
InitLog ==
    /\ Starting
    /\ feed = [forms |-> LogForms, limit |-> MaxLogEvents,
               pastes |-> {PasteFound, [kind |-> "envelope", data |-> Empty]}]

Writer(w) ==
    \/ Lock(w)
    \/ OpenFile(w)
    \/ Unlock(w)

NextLog ==
    \/ InitLookups
    \/ ListenAndServe
    \/ Next
    \/ \E w \in DOMAIN writers : Writer(w)

SpecLog == InitLog /\ [][NextLog]_vars

\* A handler that can take a step takes one: its calls to the tracker and to
\* the messaging endpoint return.  Nothing is assumed of the goroutines of
\* the log, which may hold the lock for ever, nor of main.
FairLog == SpecLog /\ \A h \in Handlers : WF_vars(Step(h))

\* A goroutine of the log that can take a step is scheduled: the one that
\* holds the lock goes on to open the file and to release the lock, and when
\* the lock is free one of those waiting for it takes it.  Nothing is
\* assumed of the handlers.
FairWrites == SpecLog /\ WF_vars(\E w \in DOMAIN writers : Writer(w))

----------------------------------------------------------------------------
(* The same process for every answer paste.search may give, and a feed of  *)
(* stories that name the tracker's objects                                 *)

MaxStartEvents == 1 \* inbound events received in one behaviour of SpecStart

StartForms == { Plain(<<idA>>), Plain(<<idB>>) }

InitStart ==
    /\ Starting
    /\ feed = [forms |-> StartForms, limit |-> MaxStartEvents,
               pastes |-> PasteResponses]

SpecStart == InitStart /\ [][NextLog]_vars

----------------
(* isPHID applied to bounded inputs *)

Tokens ==
    { idA, idB, idC,
      <<112,104,105,100,45,85,83,69,82,45,97>>,     \* "phid-USER-a"
      <<80,72,73,68,45,117,115,101,114,45,97>>,     \* "PHID-user-a"
      <<80,72,73,68,45,85,83,69,82,97>>,            \* "PHID-USERa"
      <<80,72,73,68,45,85,83,69,82>>,               \* "PHID-USER"
      <<80,72,73,68,45,85,83,69,82,45>>,            \* "PHID-USER-"
      <<120,80,72,73,68,45,85,83,69,82,45,97>>,     \* "xPHID-USER-a"
      <<80,72,73,68,45,45,97>>,                     \* "PHID--a"
      IsPHIDType, Hello, Empty }

\* type prefixes an allow-list may hold; strings.Split yields "" for an empty
\* item of SYNAPSE_FEED_PHIDS
Types == {USER, TASK, <<85,83>>, Empty}             \* "US"

TypeLists == UNION {[1..n -> Types] : n \in 0..MaxTypes}

InitIsPHID ==
    /\ Serving
    /\ feed = Feed
    /\ arg \in [value : Tokens, phids : TypeLists]
    /\ ret = << >>

CallIsPHID ==
    /\ ret = << >>
    /\ ret' = <<isPHID(arg.value, arg.phids)>>
    /\ UNCHANGED <<cache, lookups, feed, main, logger, writers, logfile, hs, events, sent,
                   stores, finished, unanswered, arg>>

SpecIsPHID == InitIsPHID /\ [][CallIsPHID]_vars

----------------------------------------------------------------------------
(* resolvePHIDs run from its call to its return with no other handler in   *)
(* between, on a list and on a permutation of it                           *)

MaxList == 3        \* length of the list given to resolvePHIDs

RECURSIVE FirstLoop(_, _, _)
FirstLoop(resolving, phids, loaded) ==
    IF resolving = << >> THEN phids
    ELSE FirstLoop(Tail(resolving),
                   FirstPass(phids, Head(resolving), loaded), loaded)

RECURSIVE StoreLoop(_, _, _, _)
StoreLoop(res, order, c, table) ==
    IF order = << >> THEN c
    ELSE LET final == TrackerObject(Head(order))
         IN  StoreLoop(res, Tail(order),
                       IF ~Parsed(res[Head(order)]) THEN c
                       ELSE CacheStore(c, final, Resolved(final, table)),
                       table)

RECURSIVE SecondLoop(_, _, _)
SecondLoop(resolving, results, c) ==
    IF resolving = << >> THEN results
    ELSE SecondLoop(Tail(resolving),
                    results \o SecondPass(Head(resolving), c), c)

\* resp is the answer to the one request, order the order of the range over
\* its result
resolvePHIDs(resolving, c, table, resp, order) ==
    LET phids == FirstLoop(resolving, << >>, DOMAIN c)
        after == IF Len(phids) > 0 /\ resp.kind = "ok"
                 THEN StoreLoop(resp.res, order, c, table)
                 ELSE c
    IN  Return(SecondLoop(resolving, << >>, after))

Lists == UNION {[1..n -> Ids] : n \in 1..MaxList}

Reorderings(s) == {[i \in 1..Len(s) |-> s[p[i]]] : p \in Perms(1..Len(s))}

\* the caches earlier invocations may have left
Caches ==
    {[id \in K |-> Resolved(TrackerObject(id), AliasTable)] : K \in SUBSET Ids}

InitResolve ==
    /\ Serving
    /\ feed = Feed
    /\ ret = << >>
    /\ \E resolving \in Lists, c \in Caches :
         \E other \in Reorderings(resolving),
            resp \in Responses(FirstLoop(resolving, << >>, DOMAIN c)) :
           \E order \in Perms(DOMAIN resp.res) :
              arg = [resolving |-> resolving, other |-> other, cache |-> c,
                     resp |-> resp, order |-> order]

CallResolve ==
    /\ ret = << >>
    /\ ret' = <<resolvePHIDs(arg.resolving, arg.cache, lookups, arg.resp,
                             arg.order),
                resolvePHIDs(arg.other, arg.cache, lookups, arg.resp,
                             arg.order)>>
    /\ UNCHANGED <<cache, lookups, feed, main, logger, writers, logfile, hs, events, sent,
                   stores, finished, unanswered, arg>>

SpecResolve == InitResolve /\ [][CallResolve]_vars

----------------------------------------------------------------------------
(* postStory run from the scan to execute with no other handler in         *)
(* between, on one form under two orders of the range over its fields and  *)
(* two orders of the range over the tracker's result                       *)

OrderForms ==
    { ("storyText" :> <<Hi>>) @@ ("storyAuthorPHID" :> <<idA>>)
                              @@ ("storyData" :> <<idC, idB>>),
      Plain(<<idB, idA>>), Plain(<<idA, idA>>),
      ("storyText" :> <<Hello, World>>) @@ ("storyType" :> <<Other>>)
          @@ ("storyData" :> <<idB>>) @@ ("storyAuthorPHID" :> <<idA>>),
      ("storyText" :> <<Hello>>) @@ ("storyType" :> <<TaggedStoryType>>)
                                 @@ ("storyData" :> <<idA>>),
      ("storyText" :> <<Hello>>) @@ ("storyType" :> <<idA, TaggedStoryType>>)
                                 @@ ("storyData" :> <<idB>>),
      Tagged(<<DocFull>>),
      ("storyType" :> <<Other>>) @@ ("storyData" :> <<idB, idA>>) }

\* lines 360-399 and 440: the scan in `order`, the call of resolvePHIDs whose
\* range over the result goes in `store`, and what execute posts for a story
\* that is not tagged; the POST of a tagged story (lines 400-433) is left to
\* TaggedStory
postStoryPlain(form, order, c, table, resp, store) ==
    LET scan == ScanForm(form, order, ScanStart)
        storyText == Join(scan.story, << >>)
        phids == IF NeedsResolve(scan)
                 THEN resolvePHIDs(scan.phids, c, table, resp, store)
                 ELSE IF scan.isTagged THEN << >> ELSE scan.phids
    IN  [isStory |-> scan.isStory,
         isTagged |-> scan.isTagged,
         phids |-> IF scan.isStory THEN phids ELSE << >>,
         posted |-> IF scan.isStory /\ ~scan.isTagged
                    THEN <<execute(storyText, ConfRoom, phids)>>
                    ELSE << >>]

InitOrder ==
    /\ Serving
    /\ feed = Feed
    /\ ret = << >>
    /\ \E form \in OrderForms, c \in Caches :
         \E order \in Perms(DOMAIN form), other \in Perms(DOMAIN form) :
           \E resp \in Responses(FirstLoop(ScanForm(form, order,
                                                    ScanStart).phids,
                                           << >>, DOMAIN c)) :
             \E store \in Perms(DOMAIN resp.res),
                store2 \in Perms(DOMAIN resp.res) :
                arg = [form |-> form, order |-> order, other |-> other,
                       cache |-> c, resp |-> resp, store |-> store,
                       store2 |-> store2]

CallOrder ==
    /\ ret = << >>
    /\ ret' = <<postStoryPlain(arg.form, arg.order, arg.cache, lookups,
                               arg.resp, arg.store),
                postStoryPlain(arg.form, arg.other, arg.cache, lookups,
                               arg.resp, arg.store2)>>
    /\ UNCHANGED <<cache, lookups, feed, main, logger, writers, logfile, hs,
                   events, sent, stores, finished, unanswered, arg>>

SpecOrder == InitOrder /\ [][CallOrder]_vars

----------------------------------------------------------------------------
(* Properties *)

\* s begins with p, byte for byte
Begins(s, p) == Len(p) <= Len(s) /\ \A i \in 1..Len(p) : s[i] = p[i]

\* sub occurs in s
Contains(s, sub) ==
    \E i \in 0..(Len(s) - Len(sub)) : SubSeq(s, i + 1, i + Len(sub)) = sub

IsSorted(a) == \A i, j \in 1..Len(a) : i < j => ~StringLess(a[j], a[i])

RECURSIVE Flatten(_)
Flatten(a) == IF a = << >> THEN << >> ELSE Head(a) \o Flatten(Tail(a))

\* the story text an event came with
StoryTextOf(r) == Flatten(r.form["storyText"])

HasStoryText(r) == r.pc # "idle" /\ "storyText" \in DOMAIN r.form

\* the event is a tagged story: it has a story text and its storyType says so
IsTaggedStory(r) ==
    /\ HasStoryText(r)
    /\ "storyType" \in DOMAIN r.form
    /\ TaggedStoryType \in Range(r.form["storyType"])

\* the values of the form's fields
FormValues(r) == UNION {Range(r.form[k]) : k \in DOMAIN r.form}

Resolvable(value) ==
    \E i \in 1..Len(ConfResolving) :
        Begins(value, IsPHIDType \o ConfResolving[i] \o Dash)

\* C1: an identifier that every response asked for it has held is carried by
\* at most one phid.query call, however many handlers resolve it at once.
C1_OneCallPerIdentifier ==
    \A id \in Ids : id \notin unanswered => sent[id] <= 1

\* C2: when an invocation whose response held an identifier has returned, a
\* later invocation for that identifier alone makes no call: one call is made
\* across the two.
C2_SecondLookupIsCacheHit ==
    \A h \in Handlers :
        \A f \in hs[h].prior :
            \A id \in f.got :
                hs[h].invoked /\ Range(hs[h].resolving) = {id}
                    => f.calls = 1 /\ hs[h].calls = 0 /\ hs[h].misses = << >>

C2_Witness ==
    \E h \in Handlers :
        /\ hs[h].pc = "done"
        /\ hs[h].resolving = <<idA>>
        /\ hs[h].calls = 0
        /\ \E f \in hs[h].prior :
              idA \in f.got /\ f.resolving = <<idA>> /\ f.calls = 1

\* C3: a cache entry is written once: no identifier is stored twice.
C3_WriteOnce == \A id \in Ids : stores[id] <= 1

\* C4: a tagged story whose text is no JSON object of strings, or has no tag,
\* or has no title, is discarded and nothing is posted for it.
TaggedBroken(r) ==
    /\ IsTaggedStory(r)
    /\ LET parsed == Unmarshal(StoryTextOf(r))
       IN  \/ parsed.err
           \/ IsTag \notin DOMAIN parsed.output
           \/ IsTitle \notin DOMAIN parsed.output

C4_BrokenTaggedStoryDiscarded ==
    \A h \in Handlers :
        TaggedBroken(hs[h]) =>
            /\ hs[h].pc = "done"
            /\ hs[h].outcome = "Discarded"
            /\ hs[h].posted = << >>

C4_Witness ==
    \E h \in Handlers :
        /\ TaggedBroken(hs[h])
        /\ StoryTextOf(hs[h]) = DocNoTitle
        /\ hs[h].outcome = "Discarded"

\* C5: a tagged story with a tag and a title is posted once, to the room of
\* its tag, and its text is the title followed by one " (key -> value)" for
\* each other key, in whatever order the keys were ranged over.
TaggedWhole(r) ==
    /\ IsTaggedStory(r)
    /\ ~Unmarshal(StoryTextOf(r)).err
    /\ {IsTag, IsTitle} \subseteq DOMAIN Unmarshal(StoryTextOf(r)).output

Suffix(k, v) == <<32,40>> \o k \o <<32,45,62,32>> \o v \o <<41>>

TaggedTexts(output) ==
    {output[IsTitle] \o Flatten([i \in 1..Len(ord) |->
                                    Suffix(ord[i], output[ord[i]])]) :
        ord \in Perms(DOMAIN output \ {IsTag, IsTitle})}

RoomOfR1 ==
    <<104,47,95,109,97,116,114,105,120,47,99,108,105,101,110,116,47,114,48,
      47,114,111,111,109,115,47,114,49,47,115,101,110,100,47,109,46,114,111,
      111,109,46,109,101,115,115,97,103,101,63,97,99,99,101,115,115,95,116,
      111,107,101,110,61,116>>
    \* "h/_matrix/client/r0/rooms/r1/send/m.room.message?access_token=t"

C5_TaggedStoryRouted ==
    \A h \in Handlers :
        LET r == hs[h]
            output == Unmarshal(StoryTextOf(r)).output
        IN  TaggedWhole(r) =>
              /\ r.pc \in {"execute", "done"}
              /\ r.toRoom = getMatrixPost(output[IsTag])
              /\ r.toRoom # ConfRoom
              /\ r.storyText \in TaggedTexts(output)
              /\ r.pc = "execute" => r.posted = << >>
              /\ r.pc = "done" =>
                    /\ r.outcome = "Emitted"
                    /\ Len(r.posted) = 1
                    /\ r.posted[1].url = r.toRoom
                    /\ r.posted[1].data.formatted_body =
                          BodyStart \o EscapeString(r.storyText) \o BodyEnd

C5_Witness ==
    \E h \in Handlers :
        /\ TaggedWhole(hs[h])
        /\ StoryTextOf(hs[h]) = DocTwo
        /\ hs[h].pc = "done"
        /\ Len(hs[h].posted) = 1
        /\ hs[h].posted[1].url = RoomOfR1
        /\ hs[h].storyText =
              Hi \o Suffix(KeyY, Two) \o Suffix(KeyX, One)

\* C6: for a tagged story the resolver is not called, whatever identifiers
\* its fields hold: no phid.query call, no cache.Store, no audit write, and
\* what is posted has no references.
C6_TaggedStoryNotResolved ==
    \A h \in Handlers :
        LET r == hs[h]
        IN  IsTaggedStory(r) =>
              /\ ~r.invoked
              /\ r.calls = 0
              /\ r.nstores = 0
              /\ r.audits = << >>
              /\ r.pc \in {"execute", "done"} => r.phids = << >>
              /\ \A i \in 1..Len(r.posted) :
                    ~Contains(r.posted[i].data.formatted_body, References)

C6_Witness ==
    \E h \in Handlers :
        /\ IsTaggedStory(hs[h])
        /\ \E v \in FormValues(hs[h]) : Resolvable(v)
        /\ hs[h].outcome = "Emitted"
        /\ Len(hs[h].posted) = 1

\* C7: a story that is not tagged is posted to the default room with the
\* concatenation of its storyText values as text; when no value of the form
\* is a resolvable identifier the resolver is not called and what is posted
\* has no references footer.
C7_PlainStoryPosted ==
    \A h \in Handlers :
        LET r == hs[h]
        IN  HasStoryText(r) /\ ~IsTaggedStory(r) =>
              /\ r.toRoom = ConfRoom
              /\ r.storyText = StoryTextOf(r)
              /\ r.pc = "done" =>
                    /\ r.outcome = "Emitted"
                    /\ Len(r.posted) = 1
                    /\ r.posted[1].url = ConfRoom
                    /\ Begins(r.posted[1].data.formatted_body,
                              BodyStart \o EscapeString(StoryTextOf(r)))
              /\ (\A v \in FormValues(r) : ~Resolvable(v)) =>
                    /\ ~r.invoked
                    /\ r.calls = 0
                    /\ r.pc # "done" => r.posted = << >>
                    /\ \A i \in 1..Len(r.posted) :
                          /\ ~Contains(r.posted[i].data.formatted_body,
                                       References)
                          /\ r.posted[i].data.formatted_body =
                                BodyStart \o EscapeString(StoryTextOf(r))
                                          \o BodyEnd

C7_Witness ==
    \E h \in Handlers :
        /\ hs[h].pc = "done"
        /\ hs[h].form = Plain(<<idC>>)
        /\ hs[h].storyText = <<104,101,108,108,111,32,32,119,111,114,108,100>>
                                                    \* "hello  world"
        /\ Len(hs[h].posted) = 1

\* C8: an event with no storyText is discarded with no effect: no phid.query
\* call, no POST, no log write, no cache.Store, even when its fields hold
\* resolvable identifiers or its storyType is that of a tagged story.
C8_NoStoryTextNoEffect ==
    \A h \in Handlers :
        LET r == hs[h]
        IN  r.pc # "idle" /\ "storyText" \notin DOMAIN r.form =>
              /\ r.pc = "done"
              /\ r.outcome = "Discarded"
              /\ ~r.invoked
              /\ r.calls = 0
              /\ r.nstores = 0
              /\ r.posted = << >>
              /\ r.audits = << >>
              /\ r.errors = << >>

C8_Witness ==
    \E h \in Handlers :
        /\ hs[h].pc = "done"
        /\ "storyText" \notin DOMAIN hs[h].form
        /\ "storyType" \in DOMAIN hs[h].form
        /\ TaggedStoryType \in Range(hs[h].form["storyType"])
        /\ \E v \in FormValues(hs[h]) : Resolvable(v)

\* C9: what resolvePHIDs returns is in ascending byte order, and is the same
\* for a list and for any permutation of it, given the same cache and the
\* same response.
C9_SortedWhateverTheOrder ==
    ret # << >> => IsSorted(ret[1]) /\ ret[1] = ret[2]

C9_Witness ==
    /\ ret # << >>
    /\ arg.resolving = <<idA, idB>>
    /\ arg.other = <<idB, idA>>
    /\ Len(ret[1]) = 3
    /\ ret[1] # SecondLoop(arg.resolving, << >>,
                           StoreLoop(arg.resp.res, arg.order, arg.cache,
                                     lookups))

\* C10: isPHID holds of a token exactly when the token begins with "PHID-",
\* a type of the list and "-"; the order of the list does not matter, and
\* bytes are compared as they are, so letter case matters.
C10_IsPHIDIffTypedPrefix ==
    ret # << >> =>
        /\ ret[1] = (\E i \in 1..Len(arg.phids) :
                        Begins(arg.value, IsPHIDType \o arg.phids[i] \o Dash))
        /\ \A other \in Reorderings(arg.phids) :
              isPHID(arg.value, other) = ret[1]

C10_Witness ==
    /\ ret = <<TRUE>>
    /\ arg.value = idA
    /\ arg.phids = <<TASK, USER>>

\* the handler has been through the first loop of resolvePHIDs and, when it
\* had misses, through its call
PastCall(r) == r.pc \in {"wait", "store", "load2", "execute", "done"}

\* the entries of a list whose cache.Load found nothing, in the list's order
Missed(resolving, loads) ==
    LET at == SelectSeq([i \in 1..Len(resolving) |-> i],
                        LAMBDA i : ~loads[i])
    IN  [j \in 1..Len(at) |-> resolving[at[j]]]

\* C11: an invocation of resolvePHIDs makes at most one phid.query call: one,
\* carrying each identifier its first loop did not find in the cache, when
\* there is such an identifier, and none when every identifier was found.
C11_OneCallForTheMisses ==
    \A h \in Handlers :
        LET r == hs[h]
        IN  r.invoked =>
              /\ r.calls <= 1
              /\ r.pc \in {"load1", "post"} => r.calls = 0
              /\ PastCall(r) =>
                    /\ Len(r.loads) = Len(r.resolving)
                    /\ r.misses = Missed(r.resolving, r.loads)
                    /\ r.carried = Range(r.misses)
                    /\ r.calls = IF FALSE \in Range(r.loads) THEN 1 ELSE 0

C11_Witness ==
    \E h \in Handlers :
        /\ hs[h].pc = "done"
        /\ hs[h].loads \in {<<TRUE, FALSE>>, <<FALSE, TRUE>>}
        /\ hs[h].calls = 1
        /\ hs[h].carried = {idB}
        /\ idA \in Range(hs[h].resolving)

\* resolvePHIDs has returned into postStory
Returned(r) == r.invoked /\ r.pc \in {"execute", "done"}

\* C12: when the call fails (no answer, an answer that is no JSON object, a
\* result that is no JSON object) the invocation stores nothing; when an
\* object of the result does not parse, the invocation stores the others and
\* not that one, so that the cache holds only identifiers some response had
\* a parsed object for; an identifier not in the cache adds nothing to the
\* list returned; the invocation makes no second call; the story is posted.
C12_FailedLookupDropsTheIdentifier ==
    /\ \A id \in DOMAIN cache :
          \/ \E h \in Handlers : id \in hs[h].got
          \/ \E f \in finished : id \in f.got
    /\ \A h \in Handlers :
          LET r == hs[h]
              stored == r.pc \in {"load2", "execute", "done"}
          IN  /\ r.kind \in {"transport", "envelope", "result"} =>
                    r.nstores = 0 /\ r.got = {} /\ stored
              /\ r.kind = "ok" /\ stored =>
                    /\ r.nstores = Cardinality(r.got)
                    /\ r.got \subseteq DOMAIN cache
              /\ r.kind # None => r.calls = 1 /\ r.outcome # "Discarded"
              /\ Returned(r) =>
                    /\ \A x \in Range(r.phids) :
                          \E id \in Range(r.resolving) \cap DOMAIN cache :
                              x \in Range(cache[id])
                    /\ \A id \in Range(r.resolving) \ DOMAIN cache :
                          \A x \in Range(r.phids) :
                              ~Contains(x, TrackerObject(id).uri)
                    /\ r.pc = "done" =>
                          r.outcome = "Emitted" /\ Len(r.posted) = 1

C12_Witness ==
    \E h \in Handlers :
        LET r == hs[h]
        IN  /\ r.pc = "done"
            /\ r.kind = "ok"
            /\ r.carried = {idA, idB}
            /\ r.got = {idA}
            /\ MsgObject \in Range(r.errors)
            /\ DOMAIN cache = {idA}
            /\ Len(r.phids) = 2
            /\ Len(r.posted) = 1

\* the goroutines between conf.logger.Lock() and the deferred Unlock()
Inside == {w \in DOMAIN writers : w.pc \in {"open", "unlock"}}

\* C13: at most one goroutine is between taking and releasing the logger's
\* lock, whatever it writes (an audit line, an error line, the startup
\* line), and the lock is held exactly while one is.
C13_OneWriterInside ==
    /\ Cardinality(Inside) <= 1
    /\ \A w \in Inside : writers[w] = 1
    /\ logger <=> Inside # {}

C13_Witness ==
    /\ logger
    /\ \E w \in Inside :
          /\ w.prefix = "error."
          /\ \E v \in DOMAIN writers :
                v.pc = "lock" /\ v.prefix = "" /\ v.category # MsgStartup
    /\ StartupLine \in DOMAIN logfile

\* the fragments of a cache entry, with a space between two
SpaceJoined(fragments) ==
    IF Len(fragments) = 0 THEN Empty
    ELSE IF Len(fragments) = 1 THEN fragments[1]
    ELSE fragments[1] \o <<32>> \o fragments[2]

\* the goroutine of an audit write that has not taken the lock yet
AuditWrite(id, message) ==
    [prefix |-> "", category |-> id, message |-> message, pc |-> "lock"]

\* the audit writes an invocation has made so far are one for each entry of
\* its list the second loop has been through, each for that entry and the
\* fragments the cache held for it
AuditsSoFar(r) ==
    /\ Len(r.audits) = IF Returned(r) THEN Len(r.resolving)
                       ELSE IF r.pc = "load2" THEN r.i - 1 ELSE 0
    /\ \A i \in 1..Len(r.audits) :
          LET id == r.resolving[i]
              message == r.audits[i][2]
              found == \/ id \in r.got
                       \/ \E j \in 1..Len(r.loads) :
                             r.loads[j] /\ r.resolving[j] = id
          IN  /\ r.audits[i][1] = id
              /\ id \notin DOMAIN cache => message = Empty
              /\ message # Empty =>
                    id \in DOMAIN cache /\ message = SpaceJoined(cache[id])
              /\ found => message # Empty
              /\ BagIn(AuditWrite(id, message), writers)

\* a step that adds to an invocation's audit writes adds one, and starts one
\* goroutine: the one that writes it
OneAuditWrite(h) ==
    Len(hs'[h].audits) > Len(hs[h].audits) =>
        LET r == hs'[h]
            n == Len(r.audits)
            write == AuditWrite(r.audits[n][1], r.audits[n][2])
        IN  /\ n = Len(hs[h].audits) + 1
            /\ BagCardinality(writers') = BagCardinality(writers) + 1
            /\ CopiesIn(write, writers') = CopiesIn(write, writers) + 1

\* C14: an invocation of resolvePHIDs starts one audit write for each entry
\* of its list, resolved or not; the write names the entry and the fragments
\* found for it in the cache joined by spaces, the empty text when none.
C14_OneAuditWritePerEntry ==
    /\ [](\A h \in Handlers : hs[h].invoked => AuditsSoFar(hs[h]))
    /\ [][\A h \in Handlers : OneAuditWrite(h)]_vars

C14_Witness ==
    \E h \in Handlers :
        LET r == hs[h]
        IN  /\ r.pc = "done"
            /\ Len(r.audits) = 2
            /\ <<idB, Empty>> \in Range(r.audits)
            /\ \E i \in 1..2 :
                  /\ r.audits[i][1] = idA
                  /\ Contains(r.audits[i][2], <<60,47,97,62,32,97,107,97,58,32>>)
                                                    \* "</a> aka: "
            /\ BagCardinality(writers) >= 2

\* the handler has an event in hand
Handling(r) == r.pc \notin {"idle", "done"}

\* C15: a handler that has received an event comes to its end whatever the
\* goroutines of the log do: also when one of them holds the lock for ever
\* and none of the writes the handler has started ever runs.
C15_LogNeverBlocksAHandler ==
    \A h \in Handlers : Handling(hs[h]) ~> hs[h].pc = "done"

C15_Witness ==
    \E h \in Handlers :
        LET r == hs[h]
        IN  /\ r.pc = "done"
            /\ r.outcome = "Emitted"
            /\ r.errors = << >>
            /\ Len(r.audits) = 2
            /\ \A i \in 1..2 :
                  BagIn(AuditWrite(r.audits[i][1], r.audits[i][2]), writers)
            /\ logger
            /\ \E w \in Inside : w.prefix = "error." /\ w.pc = "open"

\* what an event has come to, and what it has posted
Terminal(r) ==
    /\ r.pc = "idle" => r.outcome = None /\ r.posted = << >>
    /\ Handling(r) => r.outcome = None /\ r.posted = << >>
    /\ r.pc = "done" =>
          /\ r.outcome \in {"Discarded", "Emitted"}
          /\ r.outcome = "Emitted" => Len(r.posted) = 1
          /\ r.outcome = "Discarded" => r.posted = << >>

\* C16: an event comes to one of two ends, Discarded or Emitted, when the
\* calls made for it return; an event that is Emitted has made one POST to
\* the messaging endpoint, one that is Discarded none, and none makes two.
C16_DiscardedOrEmitted ==
    /\ [](\A h \in Handlers : Terminal(hs[h]) /\ Len(hs[h].posted) <= 1)
    /\ \A h \in Handlers : Handling(hs[h]) ~> hs[h].pc = "done"

C16_Witness ==
    \E h \in Handlers :
        /\ hs[h].pc = "done"
        /\ hs[h].outcome = "Emitted"
        /\ hs[h].invoked
        /\ hs[h].kind = "transport"
        /\ MsgReq \in Range(hs[h].errors)
        /\ Len(hs[h].posted) = 1

\* C17: a handler whose call to the tracker or to the messaging endpoint
\* never returns keeps no other handler from its end: every handler that
\* has received an event comes to its end or is itself in a call that does
\* not return.
C17_StalledHandlerBlocksNoOther ==
    \A h \in Handlers :
        Handling(hs[h]) ~> hs[h].pc \in {"done", "stalled"}

C17_Witness ==
    \E g, h \in Handlers :
        /\ hs[g].pc = "stalled"
        /\ hs[g].calls = 1
        /\ hs[g].kind = None
        /\ hs[h].pc = "done"
        /\ hs[h].outcome = "Emitted"
        /\ hs[h].calls = 1
        /\ hs[h].carried \cap hs[g].carried # {}
        /\ hs[h].prior = {}

\* the response has the expected shape: one document whose
\* attachments.content.content is the text of a JSON object of strings
Expected(resp) == resp.kind = "paste" /\ resp.data = PasteWhole

\* C18: initLookups makes one paste.search call; when the response is not of
\* the expected shape the alias table it returns is empty; and once the
\* server listens the alias table does not change.
C18_DeviationYieldsEmptyTable ==
    /\ [](main.pc # "init" =>
            /\ Len(main.paste) = 1
            /\ ~Expected(main.paste[1]) => lookups = << >>)
    /\ [][main.pc = "serve" => lookups' = lookups /\ main' = main]_vars

\* C19: no step takes an identifier out of the cache: what is cached stays
\* cached.
C19_CacheOnlyGrows ==
    [][\A id \in DOMAIN cache : id \in DOMAIN cache']_vars

C19_Witness ==
    /\ DOMAIN cache = {idA, idB}
    /\ \E h \in Handlers :
          /\ hs[h].pc = "done"
          /\ hs[h].nstores = 1
          /\ hs[h].prior # {}
          /\ \A f \in hs[h].prior : f.got # {} /\ f.got # hs[h].got

\* the hyperlink over uri labelled with the escaped name
Hyperlink(uri, name) ==
    <<60,97,32,104,114,101,102,61,39>> \o uri \o <<39,62>>     \* "<a href='"
        \o EscapeString(name) \o <<60,47,97,62>>               \* "'>", "</a>"

\* the entry is whole: the hyperlink of the object, then the alias of its
\* name when the alias table has one, and nothing else
Whole(entry, object) ==
    /\ Len(entry) = IF object.name \in DOMAIN lookups THEN 2 ELSE 1
    /\ entry[1] = Hyperlink(object.uri, object.name)
    /\ object.name \in DOMAIN lookups =>
          entry[2] = <<97,107,97,58,32>>                        \* "aka: "
                        \o ReplaceCommas(lookups[object.name])

\* what the second loop has loaded so far: for each entry of the list it has
\* been through, the whole cache entry or nothing
LoadedWhole(r) ==
    r.results = Flatten([i \in 1..Len(r.audits) |->
                           IF r.audits[i][2] = Empty THEN << >>
                           ELSE cache[r.resolving[i]]])

\* C20: a cache entry is stored under the phid of an object some response
\* held, and is whole: the hyperlink built from the object's uri and name,
\* then one alias fragment exactly when the alias table has the name; what
\* a reader loads is such an entry, never a part of one.
C20_CacheEntriesAreWhole ==
    /\ \A k \in DOMAIN cache :
          /\ \/ \E h \in Handlers : k \in hs[h].got
             \/ \E f \in finished : k \in f.got
          /\ TrackerObject(k).phid = k
          /\ Whole(cache[k], TrackerObject(k))
    /\ \A h \in Handlers : hs[h].invoked => LoadedWhole(hs[h])

C20_Witness ==
    /\ DOMAIN cache = {idA, idB}
    /\ cache[idA] =
          << <<60,97,32,104,114,101,102,61,39,47,117,50,39,62,97,121,60,47,
               97,62>>,                             \* "<a href='/u2'>ay</a>"
             <<97,107,97,58,32,97,108,32,105,97,115>> >>    \* "aka: al ias"
    /\ cache[idB] =
          << <<60,97,32,104,114,101,102,61,39,47,117,49,39,62,98,38,97,109,
               112,59,60,47,97,62>> >>          \* "<a href='/u1'>b&amp;</a>"
    /\ \E h \in Handlers :
          hs[h].pc = "done" /\ Len(hs[h].results) = 3

\* how many times x occurs in the list a
Count(x, a) == Cardinality({i \in DOMAIN a : a[i] = x})

\* two lists hold the same items the same number of times
SameItems(a, b) ==
    /\ Len(a) = Len(b)
    /\ \A x \in Range(a) \cup Range(b) : Count(x, a) = Count(x, b)

\* C21: the list resolvePHIDs returns holds the fragments of the cache entry
\* of each entry of its input that the second loop found in the cache, once
\* for each occurrence of the entry, and nothing else.
C21_ReturnedFragments ==
    \A h \in Handlers :
        LET r == hs[h]
        IN  Returned(r) =>
              /\ Len(r.hits) = Len(r.resolving)
              /\ SameItems(r.phids,
                           Flatten([i \in 1..Len(r.resolving) |->
                                      IF r.hits[i] THEN cache[r.resolving[i]]
                                      ELSE << >>]))

C21_Witness ==
    \E h \in Handlers :
        LET r == hs[h]
        IN  /\ r.pc = "done"
            /\ r.resolving = <<idA, idA>>
            /\ r.hits = <<TRUE, TRUE>>
            /\ Len(r.phids) = 4
            /\ r.phids[1] = r.phids[2]
            /\ r.phids[3] = r.phids[4]
            /\ r.phids[2] # r.phids[3]

\* a goroutine of the log goes from the open to the release: the lock stays
\* held, no goroutine starts or ends, and the log has the one line more or,
\* when the open failed, is as it was
Opened ==
    (\E w \in Inside : w.pc = "open") /\ (\E w \in DOMAIN writers' :
                                            w.pc = "unlock") =>
        /\ logger /\ logger'
        /\ BagCardinality(writers') = BagCardinality(writers)
        /\ \/ logfile' = logfile
           \/ BagCardinality(logfile') = BagCardinality(logfile) + 1

\* the lock is released: the goroutine that held it has ended and is not
\* started again, and the log is as it was
Released ==
    logger /\ ~logger' =>
        /\ \A w \in DOMAIN writers' : w.pc = "lock"
        /\ BagCardinality(writers') = BagCardinality(writers) - 1
        /\ logfile' = logfile

\* C22: a log write whose open fails appends nothing, releases the lock and
\* ends; whenever a log write is pending one of them can go on; and when the
\* goroutines of the log are scheduled fairly every started log write ends.
C22_LogWritesFinish ==
    /\ [][Opened /\ Released]_vars
    /\ [](writers # << >> => ENABLED (\E w \in DOMAIN writers : Writer(w)))
    /\ <>[](writers = << >> /\ ~logger)

C22_Witness ==
    /\ writers = << >>
    /\ ~logger
    /\ main.pc = "serve"
    /\ StartupLine \notin DOMAIN logfile
    /\ \E h \in Handlers :
          /\ hs[h].pc = "done"
          /\ Len(hs[h].audits) = 2
          /\ hs[h].errors # << >>
          /\ \E l \in DOMAIN logfile : l.file = "error."
          /\ BagCardinality(logfile) =
                Len(hs[h].audits) + Len(hs[h].errors) - 1

\* the items of a list with ", " between them
RECURSIVE CommaJoined(_)
CommaJoined(a) ==
    IF Len(a) = 0 THEN Empty
    ELSE IF Len(a) = 1 THEN a[1]
    ELSE a[1] \o <<44,32>> \o CommaJoined(Tail(a))

\* the footer execute writes for a list of references
Footer(phids) ==
    IF phids = << >> THEN Empty
    ELSE <<60,98,114,32,47,62,32,40,114,101,102,101,114,101,110,99,101,115,
           58,32>> \o CommaJoined(phids) \o <<41>>
                                        \* "<br /> (references: " ... ")"

\* the goroutine of an error write that has not taken the lock yet
ErrorWrite(message) ==
    [prefix |-> "error.", category |-> ErrorCategory, message |-> message,
     pc |-> "lock"]

\* C23: what execute posts has the references footer exactly when the list
\* of references is not empty, the footer holding the references joined by
\* ", "; execute makes one POST; a send that fails is written as an error
\* and the POST is not made again.
C23_FooterAndOnePost ==
    \A h \in Handlers :
        LET r == hs[h]
        IN  /\ Len(r.posted) <= 1
            /\ r.outcome = "Emitted" => Len(r.posted) = 1
            /\ \A i \in 1..Len(r.posted) :
                  LET body == r.posted[i].data.formatted_body
                  IN  /\ Contains(body, References) <=> Len(r.phids) > 0
                      /\ body = BodyStart \o EscapeString(r.storyText)
                                          \o Footer(r.phids) \o BodyEnd
                      /\ r.posted[i].url = r.toRoom
            /\ MsgReq \in Range(r.errors) =>
                  /\ r.pc = "done"
                  /\ r.outcome = "Emitted"
                  /\ Len(r.posted) = 1
                  /\ Count(MsgReq, r.errors) = 1
                  /\ BagIn(ErrorWrite(MsgReq), writers)

\* the body posted is
\* <body>Hi<br /> (references: <a href='/u1'>b&amp;</a>,
\*  <a href='/u2'>ay</a>, aka: al ias)</body>
C23_Witness ==
    \E h \in Handlers :
        /\ hs[h].pc = "done"
        /\ MsgReq \in Range(hs[h].errors)
        /\ Len(hs[h].phids) = 3
        /\ Len(hs[h].posted) = 1
        /\ hs[h].posted[1].data.formatted_body =
              <<60,98,111,100,121,62,72,105,60,98,114,32,47,62,32,40,114,
                101,102,101,114,101,110,99,101,115,58,32,60,97,32,104,114,
                101,102,61,39,47,117,49,39,62,98,38,97,109,112,59,60,47,97,
                62,44,32,60,97,32,104,114,101,102,61,39,47,117,50,39,62,97,
                121,60,47,97,62,44,32,97,107,97,58,32,97,108,32,105,97,115,
                41,60,47,98,111,100,121,62>>

\* no response so far held a parsed object for the identifier
NeverReturned(id) ==
    /\ \A h \in Handlers : id \notin hs[h].got
    /\ \A f \in finished : id \notin f.got

\* C24: an identifier the tracker has never returned (the lookup failed, or
\* the response held no object for it or one that does not parse) is not in
\* the cache, and every invocation of resolvePHIDs whose input holds it makes
\* a call to the tracker that carries it, however many calls carried it
\* before.
C24_NoNegativeCaching ==
    \A id \in Ids :
        NeverReturned(id) =>
            /\ id \notin DOMAIN cache
            /\ stores[id] = 0
            /\ \A h \in Handlers :
                  LET r == hs[h]
                  IN  r.invoked /\ PastCall(r) /\ id \in Range(r.resolving) =>
                          /\ r.calls = 1
                          /\ id \in r.carried
                          /\ sent[id] >=
                                1 + Cardinality({f \in r.prior :
                                                   id \in Range(f.resolving)})

\* a second invocation asks for idB again after a first one asked and the
\* tracker did not return it
C24_Witness ==
    \E h \in Handlers :
        LET r == hs[h]
        IN  /\ NeverReturned(idB)
            /\ r.pc = "done"
            /\ r.calls = 1
            /\ idB \in r.carried
            /\ sent[idB] = 2
            /\ idB \in unanswered
            /\ \E f \in r.prior :
                  idB \in Range(f.resolving) /\ f.calls = 1

\* C25: with the same form, cache and response, two orders of the range over
\* the form's fields (and over the tracker's result) give the same decision
\* whether the event is a story and whether it is tagged; a story that is
\* not tagged is posted once to the configured room with the same body and
\* the same footer.
C25_FieldOrderDoesNotMatter ==
    ret # << >> =>
        /\ ret[1].isStory = ret[2].isStory
        /\ ret[1].isTagged = ret[2].isTagged
        /\ ret[1].isStory /\ ~ret[1].isTagged =>
              /\ Len(ret[1].posted) = 1 /\ Len(ret[2].posted) = 1
              /\ ret[1].posted[1].url = ConfRoom
              /\ ret[2].posted[1].url = ConfRoom
              /\ ret[1].posted[1].data = ret[2].posted[1].data
              /\ ret[1].phids = ret[2].phids
              /\ ret[1].posted[1].data.formatted_body =
                    BodyStart
                      \o EscapeString(Flatten(arg.form["storyText"]))
                      \o Footer(ret[2].phids) \o BodyEnd

\* the two scans collect the identifiers in different orders, the results
\* are stored in different orders, and the footer has three fragments
C25_Witness ==
    /\ ret # << >>
    /\ DOMAIN arg.form = {"storyText", "storyAuthorPHID", "storyData"}
    /\ ScanForm(arg.form, arg.order, ScanStart).phids = <<idA, idB>>
    /\ ScanForm(arg.form, arg.other, ScanStart).phids = <<idB, idA>>
    /\ arg.cache = << >>
    /\ arg.store # arg.store2
    /\ Len(ret[1].phids) = 3
    /\ Contains(ret[2].posted[1].data.formatted_body, References)

============================================================================
